---- MODULE Spec2Model ----
(***************************************************************************)
(* Marknote: the heading extractor / table-of-contents builder of          *)
(* toc_utils.py and the Markdown preview renderer of main.py               *)
(* (MarkdownPreview.set_markdown).                                         *)
(*                                                                         *)
(* A text is a sequence of items.  An item is a one-character string, or   *)
(* one of the literal strings that the code itself matches or emits as a   *)
(* unit (the fence of three backticks, the language tag "mermaid", the HTML tags of the *)
(* renderer).  No item of the input alphabets is a proper part of another, *)
(* so matching on items agrees with matching on characters.                *)
(***************************************************************************)
EXTENDS Naturals, Sequences, FiniteSets

\* ------------------------------------------------------------ bounds
\* Longest enumerated input text of the ToC functions, in characters.
MaxTextLen == 4

\* Most segments an enumerated input text of the renderer is typed in.
MaxSegments == 4

\* Default of extract_headings' max_depth parameter.
DefaultMaxDepth == 3
\* The longest text, in typed segments, of the replayed renders.
MaxReplaySegments == 2

\* Most tables of contents inserted into one document.
MaxTocInserts == 2

\* The longest document, in characters, the AI commands are run on.
MaxAiDocLen == 2

\* Most calls of add_to_recent_files in a row.
MaxAdds == 12

\* ------------------------------------------------------- characters
NL == "\n"
CR == "\r"
TAB == "\t"

\* Characters Python's str.isspace / regex \s accept (those of the model).
Whitespace == {" ", TAB, NL, CR}

\* Line boundaries of str.splitlines (those of the model).
LineBreaks == {NL, CR}

LowerAlpha ==
  << "a", "b", "c", "d", "e", "f", "g", "h", "i", "j", "k", "l", "m",
     "n", "o", "p", "q", "r", "s", "t", "u", "v", "w", "x", "y", "z" >>

UpperAlpha ==
  << "A", "B", "C", "D", "E", "F", "G", "H", "I", "J", "K", "L", "M",
     "N", "O", "P", "Q", "R", "S", "T", "U", "V", "W", "X", "Y", "Z" >>

Digits == {"0", "1", "2", "3", "4", "5", "6", "7", "8", "9"}

Range(s) == {s[i] : i \in 1..Len(s)}

\* The character class [a-z0-9\-] of generate_anchor's second re.sub.
SafeChars == Range(LowerAlpha) \cup Digits \cup {"-"}

IsSpace(c) == c \in Whitespace

\* str.lower on one character.
lower_char(c) ==
  IF \E i \in 1..Len(UpperAlpha) : UpperAlpha[i] = c
  THEN LowerAlpha[CHOOSE i \in 1..Len(UpperAlpha) : UpperAlpha[i] = c]
  ELSE c

\* str.lower
lower(s) == [i \in 1..Len(s) |-> lower_char(s[i])]

\* str.lstrip / str.rstrip / str.strip with no argument.
RECURSIVE lstrip(_)
lstrip(s) ==
  IF s # << >> /\ IsSpace(Head(s)) THEN lstrip(Tail(s)) ELSE s

RECURSIVE rstrip(_)
rstrip(s) ==
  IF s # << >> /\ IsSpace(s[Len(s)]) THEN rstrip(SubSeq(s, 1, Len(s) - 1)) ELSE s

strip(s) == rstrip(lstrip(s))

\* Length of the whitespace run s starts with.
CountSpaces(s) == Len(s) - Len(lstrip(s))

\* str.splitlines: the lines between line boundaries, "\r\n" one boundary,
\* no empty last line after a final boundary.
RECURSIVE SplitFrom(_, _)
SplitFrom(s, cur) ==
  LET breaks == {i \in 1..Len(s) : s[i] \in LineBreaks}
      line(i, n) ==
        << cur \o SubSeq(s, 1, i - 1) >> \o SplitFrom(SubSeq(s, n + 1, Len(s)), << >>)
      cut(i) ==
        line(i, IF s[i] = CR /\ i < Len(s) /\ s[i + 1] = NL THEN i + 1 ELSE i)
  IN  IF breaks = {}
      THEN (IF cur \o s = << >> THEN << >> ELSE << cur \o s >>)
      ELSE cut(CHOOSE i \in breaks : \A j \in breaks : i <= j)

splitlines(s) == SplitFrom(s, << >>)

\* '\n'.join(lines)
RECURSIVE join(_, _)
join(sep, lines) ==
  IF lines = << >> THEN << >>
  ELSE IF Len(lines) = 1 THEN lines[1]
  ELSE lines[1] \o sep \o join(sep, Tail(lines))

\* ------------------------------------------------- generate_anchor
\* A plausible slip: r'\s' for r'[\s]+', one hyphen per whitespace character.
RECURSIVE sub_whitespace_each(_)
sub_whitespace_each(s) ==
  IF s = << >> THEN << >>
  ELSE IF IsSpace(Head(s)) THEN << "-" >> \o sub_whitespace_each(Tail(s))
  ELSE << Head(s) >> \o sub_whitespace_each(Tail(s))

\* re.sub(r'[\s]+', '-', s): each maximal run of whitespace, found left to
\* right, becomes one hyphen.
RECURSIVE sub_whitespace(_)
sub_whitespace(s) ==
  IF s = << >> THEN << >>
  ELSE IF IsSpace(Head(s)) THEN << "-" >> \o sub_whitespace(lstrip(s))
  ELSE << Head(s) >> \o sub_whitespace(Tail(s))

IsSafe(c) == c \in SafeChars

\* A plausible slip: the hyphen missing from the class, r'[^a-z0-9]'.
sub_unsafe_nohyphen(s) == SelectSeq(s, LAMBDA c : c \in SafeChars \ {"-"})

\* re.sub(r'[^a-z0-9\-]', '', s)
sub_unsafe(s) == SelectSeq(s, IsSafe)

generate_anchor(text) == sub_unsafe(sub_whitespace(lower(strip(text))))

\* ------------------------------------------------ extract_headings
Hash == "#"

AllIn(s, from, to, S) == \A i \in from..to : s[i] \in S

\* A plausible slip: the pattern '^(#+)\s+(.+)', the depth limit left out.
MatchSplits_nodepth(line, max_depth) ==
  { hw \in (1..Len(line)) \X (1..Len(line)) :
      /\ hw[1] + hw[2] < Len(line)
      /\ AllIn(line, 1, hw[1], {Hash})
      /\ AllIn(line, hw[1] + 1, hw[1] + hw[2], Whitespace) }

\* The ways '^(#{1,max_depth})\s+(.+)' matches at the start of a line: h
\* hashes, then w whitespace characters, then at least one more character.
MatchSplits(line, max_depth) ==
  { hw \in (1..max_depth) \X (1..Len(line)) :
      /\ hw[1] + hw[2] < Len(line)
      /\ AllIn(line, 1, hw[1], {Hash})
      /\ AllIn(line, hw[1] + 1, hw[1] + hw[2], Whitespace) }

\* re.match's choice among them: both quantifiers are greedy, the first
\* has priority.
GreedySplit(line, max_depth) ==
  LET S == MatchSplits(line, max_depth)
      h == CHOOSE x \in {hw[1] : hw \in S} : \A hw \in S : hw[1] <= x
      w == CHOOSE y \in {hw[2] : hw \in {z \in S : z[1] = h}} :
             \A hw \in {z \in S : z[1] = h} : hw[2] <= y
  IN  << h, w >>

\* A plausible slip: group(2) used as it is, its strip and the empty test
\* left out.
HeadingOfLine_noskip(line, max_depth) ==
  IF MatchSplits(line, max_depth) = {} THEN << >>
  ELSE LET hw    == GreedySplit(line, max_depth)
           text  == SubSeq(line, hw[1] + hw[2] + 1, Len(line))
       IN  << [level |-> hw[1], text |-> text,
               anchor |-> generate_anchor(text)] >>

\* The heading of one line: << >> when the line gives none, else << h >>.
HeadingOfLine(line, max_depth) ==
  IF MatchSplits(line, max_depth) = {} THEN << >>
  ELSE LET hw    == GreedySplit(line, max_depth)
           level == hw[1]
           text  == strip(SubSeq(line, hw[1] + hw[2] + 1, Len(line)))
       IN  IF text = << >> THEN << >>
           ELSE << [level |-> level, text |-> text,
                    anchor |-> generate_anchor(text)] >>

RECURSIVE HeadingsOfLines(_, _)
HeadingsOfLines(lines, max_depth) ==
  IF lines = << >> THEN << >>
  ELSE HeadingOfLine(Head(lines), max_depth)
         \o HeadingsOfLines(Tail(lines), max_depth)

\* A plausible slip: match.group read without the 'if match' test, which
\* raises on a line the pattern does not match.
extract_raises_nocheck(markdown_text, max_depth) ==
  LET lines == splitlines(markdown_text)
  IN  \/ max_depth = 0 /\ lines # << >>
      \/ \E i \in 1..Len(lines) : MatchSplits(lines[i], max_depth) = {}

\* re.match compiles the pattern for every line: '#{1,0}' is rejected by the
\* regex compiler ("min repeat greater than max repeat").
extract_raises(markdown_text, max_depth) ==
  max_depth = 0 /\ splitlines(markdown_text) # << >>

\* A plausible slip: GitHub's uniquification, a repeated anchor gets "-1".
RECURSIVE Dedup(_, _)
Dedup(hs, seen) ==
  IF hs = << >> THEN << >>
  ELSE LET h == Head(hs)
           a == IF h.anchor \in seen THEN h.anchor \o << "-", "1" >> ELSE h.anchor
       IN  << [h EXCEPT !.anchor = a] >> \o Dedup(Tail(hs), seen \cup {h.anchor})

extract_headings_dedup(markdown_text, max_depth) ==
  Dedup(HeadingsOfLines(splitlines(markdown_text), max_depth), {})

extract_headings(markdown_text, max_depth) ==
  HeadingsOfLines(splitlines(markdown_text), max_depth)

\* ------------------------------------------------------ format_toc
RECURSIVE Repeat(_, _)
Repeat(s, n) == IF n <= 0 THEN << >> ELSE s \o Repeat(s, n - 1)

\* A plausible slip: the indent taken from level, not level - 1.
TocLine_indent(h) ==
  Repeat(<< " ", " " >>, h.level)
    \o << "-", " ", "[" >> \o h.text \o << "]", "(", "#" >> \o h.anchor \o << ")" >>

\* The f-string of format_toc: indent, then - [text](#anchor).
TocLine(h) ==
  Repeat(<< " ", " " >>, h.level - 1)
    \o << "-", " ", "[" >> \o h.text \o << "]", "(", "#" >> \o h.anchor \o << ")" >>

\* A plausible slip: a title line put before the list, also when it is empty.
format_toc_titled(headings) ==
  << "T", "o", "C" >>
    \o (IF headings = << >> THEN << >>
        ELSE << NL >> \o join(<< NL >>, [i \in 1..Len(headings) |-> TocLine(headings[i])]))

format_toc(headings) ==
  IF headings = << >> THEN << >>
  ELSE join(<< NL >>, [i \in 1..Len(headings) |-> TocLine(headings[i])])

\* --------------------------------------- MarkdownPreview.set_markdown
\* Literal strings the renderer matches or emits, each one item of a text.
\* The fence, three backticks (a TLA+ string cannot hold a backtick).
FENCE == "<fence>"
MERMAID == "mermaid"
DIV_OPEN == "<div class=\"mermaid\">"
DIV_CLOSE == "</div>"
A_OPEN == "<a href=\""
SCHEME == "wikilink://"
A_MID == "\" class=\"wikilink\">"
A_CLOSE == "</a>"
PCT20 == "%20"
\* The opening div tag with its one space replaced by %20.
DIV_OPEN_PCT == "<div%20class=\"mermaid\">"

\* Index of the first item of s at or after position from that is in S;
\* 0 when there is none.
FirstIn(s, from, S) ==
  LET hits == {i \in from..Len(s) : s[i] \in S}
  IN  IF hits = {} THEN 0 ELSE CHOOSE i \in hits : \A j \in hits : i <= j

Drop(s, n) == SubSeq(s, n + 1, Len(s))

\* The f-string of mermaid_replacer: the div tags around group 1.
mermaid_replacer(code) == << DIV_OPEN >> \o code \o << DIV_CLOSE >>

\* Where r'```mermaid\s*([\s\S]*?)```' matches at the head of s: the fence
\* and the tag, the whole whitespace run after them, then lazily everything
\* up to the next fence.  << >> when it does not match, else
\* << first index of group 1, index of the closing fence >>.
MermaidMatch(s) ==
  IF Len(s) >= 2 /\ s[1] = FENCE /\ s[2] = MERMAID
  THEN LET w     == CountSpaces(Drop(s, 2))
           close == FirstIn(s, 3 + w, {FENCE})
       IN  IF close = 0 THEN << >> ELSE << 3 + w, close >>
  ELSE << >>

\* A plausible slip: the closing fence of a block left in the text.
RECURSIVE sub_mermaid_keepclose(_)
sub_mermaid_keepclose(s) ==
  IF s = << >> THEN << >>
  ELSE LET m == MermaidMatch(s)
       IN  IF m = << >> THEN << Head(s) >> \o sub_mermaid_keepclose(Tail(s))
           ELSE mermaid_replacer(SubSeq(s, m[1], m[2] - 1))
                  \o << FENCE >> \o sub_mermaid_keepclose(Drop(s, m[2]))

\* mermaid_pattern.sub(mermaid_replacer, text): the matches left to right,
\* none overlapping.
RECURSIVE sub_mermaid(_)
sub_mermaid(s) ==
  IF s = << >> THEN << >>
  ELSE LET m == MermaidMatch(s)
       IN  IF m = << >> THEN << Head(s) >> \o sub_mermaid(Tail(s))
           ELSE mermaid_replacer(SubSeq(s, m[1], m[2] - 1))
                  \o sub_mermaid(Drop(s, m[2]))

\* page.replace(' ', '%20'): every space, also the one inside a div tag that
\* stage 1 put into the page.
replace_spaces(page) ==
  [i \in 1..Len(page) |->
     IF page[i] = " " THEN PCT20
     ELSE IF page[i] = DIV_OPEN THEN DIV_OPEN_PCT
     ELSE page[i]]

\* A plausible slip: the href built from group 1 as matched, not stripped.
wiki_link_replacer_rawhref(group1) ==
  LET page == strip(group1)
  IN  << A_OPEN, SCHEME >> \o replace_spaces(group1) \o << A_MID >>
        \o << "[", "[" >> \o page \o << "]", "]" >> \o << A_CLOSE >>

\* wiki_link_replacer: page = match.group(1).strip(), then
\* the anchor: href wikilink://, the page with %20 for each space, the class,
\* and [[page]] as its text.
wiki_link_replacer(group1) ==
  LET page == strip(group1)
  IN  << A_OPEN, SCHEME >> \o replace_spaces(page) \o << A_MID >>
        \o << "[", "[" >> \o page \o << "]", "]" >> \o << A_CLOSE >>

\* A plausible slip: one closing bracket taken as the end of a span.
WikiMatch_oneclose(s) ==
  IF Len(s) >= 4 /\ s[1] = "[" /\ s[2] = "["
  THEN LET stop == FirstIn(s, 3, {"]"})
       IN  IF stop > 3 THEN stop - 3 ELSE 0
  ELSE 0

\* Where r'\[\[([^\]]+)\]\]' matches at the head of s: 0 when it does not,
\* else the length of group 1 (the whole run of items other than ']').
WikiMatch(s) ==
  IF Len(s) >= 5 /\ s[1] = "[" /\ s[2] = "["
  THEN LET stop == FirstIn(s, 3, {"]"})
       IN  IF stop > 3 /\ stop < Len(s) /\ s[stop + 1] = "]" THEN stop - 3 ELSE 0
  ELSE 0

\* wiki_pattern.sub(wiki_link_replacer, text)
RECURSIVE sub_wikilinks(_)
sub_wikilinks(s) ==
  IF s = << >> THEN << >>
  ELSE LET n == WikiMatch(s)
       IN  IF n = 0 THEN << Head(s) >> \o sub_wikilinks(Tail(s))
           ELSE wiki_link_replacer(SubSeq(s, 3, 2 + n))
                  \o sub_wikilinks(Drop(s, n + 4))

\* md_parser.convert: the Markdown library, outside the repository.  Raw
\* HTML and plain text pass through it in order; the model keeps the items
\* of its input between paragraph tags.
P_OPEN == "<p>"
P_CLOSE == "</p>"

md_convert(s) == IF s = << >> THEN << >> ELSE << P_OPEN >> \o s \o << P_CLOSE >>

\* The pieces of the assembled document.
HTML_HEAD == "<html><head><style>...</style>"
MERMAID_SCRIPT == "<script src=\"mermaid.min.js\"></script>"
INJECTED_JS == "<script>...wikilinkBridge...</script>"
MERMAID_INIT == "<script>...mermaid.init...</script>"
BODY_OPEN == "</head><body>"
BODY_CLOSE == "</body></html>"

\* A plausible slip: the diagram scripts put into every document.
assemble_always(html_body) ==
  << HTML_HEAD, MERMAID_SCRIPT, INJECTED_JS, MERMAID_INIT, BODY_OPEN >>
    \o html_body \o << BODY_CLOSE >>

\* full_html of set_markdown
assemble(html_body) ==
  IF DIV_OPEN \in Range(html_body)
  THEN << HTML_HEAD, MERMAID_SCRIPT, INJECTED_JS, MERMAID_INIT, BODY_OPEN >>
         \o html_body \o << BODY_CLOSE >>
  ELSE << HTML_HEAD, INJECTED_JS, BODY_OPEN >> \o html_body \o << BODY_CLOSE >>

\* The base_url argument: left out (None), QUrl(), or the URL of a folder.
NoUrl == "None"
EmptyUrl == ""
BaseUrls == {NoUrl, EmptyUrl, "file:///notes/"}

\* A plausible slip: the empty QUrl() taken as no base path either.
Truthy_nonempty(b) == b \notin {NoUrl, EmptyUrl}

\* A plausible slip: the test left out, the argument always stored.
Truthy_always(b) == TRUE

\* 'if base_url:' of set_markdown: a QUrl object is true, None is not.
Truthy(b) == b # NoUrl

\* ------------------------------------------------------- MainWindow
\* Folders: default_folder, the root of the library, and a folder in it.
RootDir == "/notes/"
SubDir == "/notes/sub/"

\* QUrl.fromLocalFile of a folder
FolderUrl(d) == IF d = RootDir THEN "file:///notes/" ELSE "file:///notes/sub/"

\* A Markdown file: its folder and its name without the '.md'.
FilePath(d, stem) == [dir |-> d, stem |-> stem]

\* current_file = None
NoFile == [dir |-> "None", stem |-> << >>]

\* RecentFilesManager.MAX_RECENT_FILES
MAX_RECENT_FILES == 10

\* fnmatch of a name against a pattern, '*' standing for any run of
\* characters ('?' and '[' do not occur in the titles of the model).  The
\* suffix '.md' of both is left out.
RECURSIVE GlobMatch(_, _)
GlobMatch(pat, name) ==
  IF pat = << >> THEN name = << >>
  ELSE IF Head(pat) = "*"
       THEN \E k \in 0..Len(name) : GlobMatch(Tail(pat), Drop(name, k))
  ELSE name # << >> /\ Head(name) = Head(pat) /\ GlobMatch(Tail(pat), Tail(name))

\* A plausible slip: the title taken as the beginning of a file name.
rglob_prefix(fs, page_name) ==
  {p \in DOMAIN fs :
     Len(p.stem) >= Len(page_name) /\ SubSeq(p.stem, 1, Len(page_name)) = page_name}

\* list(base.rglob(f"{page_name}.md")), as a set: the files of any folder
\* under the root whose name matches the pattern.
rglob(fs, page_name) == {p \in DOMAIN fs : GlobMatch(page_name, p.stem)}

\* open(path, 'w').write(content)
write(fs, path, content) ==
  [q \in DOMAIN fs \cup {path} |-> IF q = path THEN content ELSE fs[q]]

\* A plausible slip: the new page written without the heading marker.
new_page_text_plain(page_name) == page_name \o << NL, NL >>

\* f"# {page_name}\n\n"
new_page_text(page_name) == << "#", " " >> \o page_name \o << NL, NL >>

\* The empty string given as a path.
EmptyPath == [dir |-> "", stem |-> << >>]

\* A spelling of the root folder that is not normalized.
DotDir == "/notes/sub/../"

\* str(Path(file_path).resolve())
resolve(path) == IF path.dir = DotDir THEN FilePath(RootDir, path.stem) ELSE path

\* A plausible slip: the path is put on top without the older entry of the
\* same path being removed.
add_to_recent_files_keep(list, path) ==
  IF path \in {NoFile, EmptyPath} THEN list
  ELSE LET put(moved) ==
             SubSeq(moved, 1, IF Len(moved) < MAX_RECENT_FILES THEN Len(moved)
                              ELSE MAX_RECENT_FILES)
       IN  put(<< resolve(path) >> \o list)

\* RecentFilesManager.add_to_recent_files
add_to_recent_files(list, path) ==
  IF path \in {NoFile, EmptyPath} THEN list
  ELSE LET put(moved) ==
             SubSeq(moved, 1, IF Len(moved) < MAX_RECENT_FILES THEN Len(moved)
                              ELSE MAX_RECENT_FILES)
           top(normalized_path) ==
             put(<< normalized_path >> \o SelectSeq(list, LAMBDA q : q # normalized_path))
       IN  top(resolve(path))

\* MarkdownPreview.set_markdown(t, b) on a preview pv, as a function of it.
set_markdown(pv, t, b) ==
  LET shown(divs, links, body) ==
        [rpc |-> "rendered", text |-> t, base |-> b, divs |-> divs,
         links |-> links, body |-> body, html |-> assemble(body),
         url |-> IF Truthy(b) THEN b ELSE pv.url]
      converted(divs, links) == shown(divs, links, md_convert(links))
      linked(divs) == converted(divs, sub_wikilinks(divs))
  IN  linked(sub_mermaid(t))

\* self.preview.set_markdown(t, b) called by the window, the call recorded.
preview_set_markdown(h, t, b) ==
  [h EXCEPT !.pv = set_markdown(h.pv, t, b),
            !.calls = Append(h.calls, [text |-> t, base |-> b])]

\* MainWindow.update_preview: the editor text with the URL of the file's
\* folder, or the empty text when no existing file is open.
update_preview(h) ==
  IF h.current = NoFile \/ h.current \notin DOMAIN h.files
  THEN preview_set_markdown(h, << >>, EmptyUrl)
  ELSE preview_set_markdown(h, h.editor, FolderUrl(h.current.dir))

\* MainWindow.set_dirty: the mark of unsaved changes in the window title.
set_dirty(h, dirty) == [h EXCEPT !.dirty = dirty]

\* A plausible slip: the preview rendered on every change of the text.
on_editor_content_changed_render(h) ==
  update_preview(set_dirty(h, h.editor # h.saved))

\* MainWindow._on_editor_content_changed (the language label is left out)
on_editor_content_changed(h) == set_dirty(h, h.editor # h.saved)

\* MarkdownEditor.setPlainText: setText, whose textChanged signal runs
\* _on_editor_content_changed.
setPlainText(h, t) == on_editor_content_changed([h EXCEPT !.editor = t])

\* MainWindow._update_file_state(content, filepath, False)
update_file_state(h, content, filepath) ==
  update_preview([h EXCEPT !.saved = content, !.current = filepath,
                           !.dirty = FALSE])

\* The branch of save_file that writes current_file; ok tells whether the
\* write succeeds (a failure is reported and changes nothing).
write_current(h, ok) ==
  LET listed(h2) ==
        [h2 EXCEPT !.recent = add_to_recent_files(h2.recent, h.current),
                   !.dirty = FALSE,
                   !.wrote = "ok"]
  IN  IF ok
      THEN listed(update_file_state(
                    [h EXCEPT !.files = write(h.files, h.current, h.editor)],
                    h.editor, h.current))
      ELSE [h EXCEPT !.wrote = "failed", !.notice = "Failed to save file"]

\* MainWindow.save_file_as: as is the path chosen in the dialog, NoFile when
\* the dialog is cancelled.
save_file_as(h, ok, as) ==
  IF as = NoFile THEN h
  ELSE update_preview(update_preview(write_current([h EXCEPT !.current = as], ok)))

\* MainWindow.save_file
save_file(h, ok, as) ==
  update_preview(IF h.current # NoFile THEN write_current(h, ok)
                 ELSE save_file_as(h, ok, as))

\* MainWindow.maybe_save_changes: the state it leaves and what it returns.
\* reply is the answer to 'Do you want to save them?'.
maybe_save_changes(h, reply, ok, as) ==
  LET returns(h1, go) ==
        [h |-> [h1 EXCEPT !.ret = IF go THEN "True" ELSE "False"], go |-> go]
      saved(h1) == returns(h1, h1.editor = h1.saved)
      asked(h1) ==
        CASE reply = "Yes" -> saved(save_file(h1, ok, as))
          [] reply = "Cancel" -> returns(h1, FALSE)
          [] OTHER -> returns(h1, TRUE)
  IN  IF h.ro THEN returns(h, TRUE)
      ELSE IF h.editor # h.saved THEN asked([h EXCEPT !.reply = reply])
      ELSE returns(h, TRUE)

\* MainWindow.new_file
new_file(h, reply, ok, as) ==
  LET cleared(m) ==
        IF ~m.go THEN m.h
        ELSE update_file_state(setPlainText(m.h, << >>), << >>, NoFile)
  IN  cleared(maybe_save_changes(h, reply, ok, as))

\* MainWindow.open_file(file_path): file_path is the path given, or the one
\* chosen in the dialog, NoFile when the dialog is cancelled; a path that is
\* not a file ends in the error message.
open_file(h, file_path, reply, ok, as) ==
  LET listed(h2) ==
        [h2 EXCEPT !.recent = add_to_recent_files(h2.recent, file_path),
                   !.opened = file_path]
      loaded(h0, content) ==
        listed(update_file_state(setPlainText(h0, content), content, file_path))
      read(m) ==
        IF ~m.go \/ file_path = NoFile THEN m.h
        ELSE IF file_path \notin DOMAIN m.h.files
        THEN [m.h EXCEPT !.notice = "Could not open file"]
        ELSE loaded(m.h, m.h.files[file_path])
  IN  read(maybe_save_changes(h, reply, ok, as))

\* MainWindow.set_view_mode
set_view_mode(h, mode) ==
  IF mode = "edit" THEN [h EXCEPT !.mode = "edit"]
  ELSE [update_preview(h) EXCEPT !.mode = "preview"]

\* MainWindow.toggle_mode (the mode is also written to the configuration)
toggle_mode(h) ==
  IF h.mode = "preview" THEN set_view_mode(h, "edit")
  ELSE set_view_mode(h, "preview")

\* The comment line insert_table_of_contents puts above the list.
TOC_MARK == << "<", "!", "-", "-", " ", "T", "O", "C", " ", "-", "-", ">" >>

\* A plausible slip: the list put under a heading line of its own.
toc_block_titled(toc_md) ==
  << "#", " ", "T", "O", "C", NL >> \o toc_md \o << NL, NL >>

\* f"<!-- TOC -->\n{toc_md}\n\n"
toc_block(toc_md) == TOC_MARK \o << NL >> \o toc_md \o << NL, NL >>

\* A plausible slip: the block inserted whether or not there is a heading.
insert_table_of_contents_always(h) ==
  LET spliced(toc_md) ==
        [setPlainText(h, toc_block(toc_md) \o h.editor)
           EXCEPT !.notice = "Table of Contents Inserted",
                  !.inserts = h.inserts + 1]
  IN  spliced(format_toc(extract_headings(h.editor, DefaultMaxDepth)))

\* MainWindow.insert_table_of_contents
insert_table_of_contents(h) ==
  LET spliced(toc_md) ==
        IF toc_md = << >> THEN [h EXCEPT !.notice = "No Headings Found"]
        ELSE [setPlainText(h, toc_block(toc_md) \o h.editor)
                EXCEPT !.notice = "Table of Contents Inserted",
                       !.inserts = h.inserts + 1]
  IN  spliced(format_toc(extract_headings(h.editor, DefaultMaxDepth)))

\* The beginnings of strings that the AI code emits or tests for.
AI_ERROR == "[AI Error:"
ERROR == "Error:"
FAILED == "Failed to get valid response"

\* str.startswith, for a beginning that is one item
startswith(str, prefix) == str # << >> /\ Head(str) = prefix

\* What becomes of a request: what requests.post does, the status of the
\* response, its body and the text in it.
NoOutcome == [post |-> "none", status |-> "none", body |-> "none", text |-> << >>]

\* raise_for_status raises HTTPError for the client and server error codes.
IsErrorStatus(status) == status \in {"404", "500"}

\* The bodies in which result["candidates"][0]["content"]["parts"][0]["text"]
\* raises KeyError, IndexError or TypeError.
MalformedBodies == {"no candidates", "empty candidates", "null candidates", "no parts"}

\* A plausible slip: no handler for the exceptions that are none of Timeout,
\* ConnectionError and HTTPError.
gemini_request_nocatch(o) ==
  CASE o.post = "Timeout" ->
         [raised |-> FALSE, value |-> << AI_ERROR, " Request timed out. Please try again.]" >>]
    [] o.post = "ConnectionError" ->
         [raised |-> FALSE, value |-> << AI_ERROR, " Could not connect to AI service. Check your internet connection.]" >>]
    [] o.post = "Exception" -> [raised |-> TRUE, value |-> << >>]
    [] IsErrorStatus(o.status) ->
         [raised |-> FALSE, value |-> << AI_ERROR, " AI service returned an error: ", o.status, "]" >>]
    [] o.body = "not JSON" -> [raised |-> TRUE, value |-> << >>]
    [] o.body \in MalformedBodies ->
         [raised |-> FALSE, value |-> << AI_ERROR, " Unexpected response format from AI service.]" >>]
    [] OTHER -> [raised |-> FALSE, value |-> o.text]

\* AIMarkdownAssistant._gemini_request: whether it raises, and what it
\* returns.
gemini_request(o) ==
  CASE o.post = "Timeout" ->
         [raised |-> FALSE, value |-> << AI_ERROR, " Request timed out. Please try again.]" >>]
    [] o.post = "ConnectionError" ->
         [raised |-> FALSE, value |-> << AI_ERROR, " Could not connect to AI service. Check your internet connection.]" >>]
    [] o.post = "Exception" ->
         [raised |-> FALSE, value |-> << AI_ERROR, " An unexpected error occurred: ", "post", "]" >>]
    [] IsErrorStatus(o.status) ->
         [raised |-> FALSE, value |-> << AI_ERROR, " AI service returned an error: ", o.status, "]" >>]
    [] o.body = "not JSON" ->
         [raised |-> FALSE, value |-> << AI_ERROR, " An unexpected error occurred: ", "json", "]" >>]
    [] o.body \in MalformedBodies ->
         [raised |-> FALSE, value |-> << AI_ERROR, " Unexpected response format from AI service.]" >>]
    [] OTHER -> [raised |-> FALSE, value |-> o.text]

\* fail_msg of ai_prompt_action
fail_msg(action_type) ==
  CASE action_type = "table" -> "AI Table Creation Failed"
    [] action_type = "mermaid" -> "AI Mermaid Diagram Creation Failed"
    [] OTHER -> "AI Command Failed"

\* editor.insert(t) with the cursor at pos; the change of the text runs
\* _on_editor_content_changed.
editor_insert(h, pos, t) ==
  on_editor_content_changed(
    [h EXCEPT !.editor = SubSeq(h.editor, 1, pos) \o t \o Drop(h.editor, pos)])

\* The test of ai_prompt_action that tells content from an error message.
is_content(result) ==
  /\ result # << >>
  /\ ~startswith(result, ERROR)
  /\ ~startswith(result, FAILED)

\* MainWindow.ai_prompt_action(action_type).  prompt is "cancel" when the
\* dialog is cancelled, "empty" when nothing is typed into it; selected says
\* that the whole text is selected, pos is where the cursor stands; o is what
\* becomes of the request.  The three AI methods return what _gemini_request
\* returns.
ai_prompt_action(h, action_type, prompt, selected, pos, o) ==
  LET put(result) ==
        IF action_type = "command" /\ selected
        THEN setPlainText(h, result)
        ELSE editor_insert(h, pos, result \o << NL >>)
      answered(r) ==
        IF r.raised THEN [h EXCEPT !.notice = "AI Error"]
        ELSE IF is_content(r.value) THEN set_dirty(put(r.value), TRUE)
        ELSE [h EXCEPT !.notice = fail_msg(action_type)]
      recorded(r) == [answered(r) EXCEPT !.ai = [outcome |-> o, raised |-> r.raised, value |-> r.value]]
  IN  IF prompt = "cancel" THEN h
      ELSE IF prompt = "empty" THEN [h EXCEPT !.notice = "No Description"]
      ELSE recorded(gemini_request(o))

\* MainWindow.handle_wiki_link(page_name).  pick is the file rglob lists
\* first, in the order of the file system; create is the answer to
\* 'Create it?'.
handle_wiki_link(h, page_name, pick, create, reply, ok, as) ==
  IF rglob(h.files, page_name) # {}
  THEN open_file(h, pick, reply, ok, as)
  ELSE IF create = "Yes"
       THEN LET created(new_path) ==
                  [h EXCEPT !.files = write(h.files, new_path, new_page_text(page_name)),
                            !.asked = create]
                new(new_path) == open_file(created(new_path), new_path, reply, ok, as)
            IN  new(FilePath(RootDir, page_name))
  ELSE [h EXCEPT !.asked = create]

\* The textContent of an element: its markup without the tags.
TextOf(s) == SelectSeq(s, LAMBDA c : c \notin {DIV_OPEN, DIV_CLOSE, A_OPEN, A_MID, A_CLOSE})

\* A plausible slip: the brackets left on the text of the link.
js_page_brackets(link_text) == strip(TextOf(link_text))

\* The listener of injected_js:
\* link.textContent.replace(/^\[\[|\]\]$/g, '').trim()
js_page(link_text) ==
  LET t == TextOf(link_text)
      a == IF Len(t) >= 2 /\ t[1] = "[" /\ t[2] = "[" THEN Drop(t, 2) ELSE t
      b == IF Len(a) >= 2 /\ a[Len(a) - 1] = "]" /\ a[Len(a)] = "]"
           THEN SubSeq(a, 1, Len(a) - 2) ELSE a
  IN  strip(b)

\* WikiLinkPage.acceptNavigationRequest:
\* url_str[len('wikilink://'):].replace('%20', ' '), for an URL that starts
\* with the scheme.
nav_page(url_str) ==
  [i \in 1..(Len(url_str) - 1) |->
     IF url_str[i + 1] = PCT20 THEN " "
     ELSE IF url_str[i + 1] = DIV_OPEN_PCT THEN DIV_OPEN
     ELSE url_str[i + 1]]

\* ------------------------------------------------------------ inputs
\* Characters of the enumerated input texts of the ToC functions.
TocChars == {Hash, " ", TAB, "a", "A", "!", "-", NL}

SeqsUpTo(S, n) == UNION {[1..k -> S] : k \in 0..n}

SampleAB == << "#", " ", "A", NL, "#", "#", " ", "B", NL >>
SampleFour == << "#", "#", "#", "#", " ", "F", "o", "u", "r" >>
SampleThree == << "#", "#", "#", " ", "T", "h", "r", "e", "e" >>
SampleBlank == << "#", " ", " ", " ", " " >>
SampleIntro ==
  << "#", " ", "I", "n", "t", "r", "o", CR, NL,
     "#", "#", TAB, "I", "n", "t", "r", "o", " " >>
SamplePunct == << "#", " ", "a", "!", " ", TAB, "B", "-", "1", "?" >>

TocSamples ==
  {SampleAB, SampleFour, SampleThree, SampleBlank, SampleIntro, SamplePunct}

TocTexts == SeqsUpTo(TocChars, MaxTextLen) \cup TocSamples

MaxDepths == 0..DefaultMaxDepth

\* The enumerated input texts of the renderer are typed segment by segment.
Segments ==
  { << FENCE, MERMAID >>, << FENCE >>, << "[", "[" >>, << "]", "]" >>,
    << "[" >>, << "]" >>, << " " >>, << NL >>, << "x" >> }

RECURSIVE ConcatsUpTo(_)
ConcatsUpTo(k) ==
  IF k = 0 THEN {<< >>}
  ELSE LET P == ConcatsUpTo(k - 1)
       IN  P \cup {p \o g : p \in P, g \in Segments}

\* A diagram block whose first line is indented.
SampleIndented == << FENCE, MERMAID, NL, " ", " ", "x", NL, FENCE >>
\* A diagram block holding a double-bracket span (a subroutine node).
SampleSubroutine ==
  << FENCE, MERMAID, NL, "A", "[", "[", " ", "x", " ", "]", "]", NL, FENCE >>
\* The diagram block 'graph TD / X --> Y'.
SampleGraph ==
  << FENCE, MERMAID, NL, "g", "r", "a", "p", "h", " ", "T", "D", NL,
     " ", " ", "X", " ", "-", "-", ">", " ", "Y", NL, FENCE >>
\* 'See [[Project Plan]] for details.'
SamplePlan ==
  << "S", "e", "e", " ", "[", "[", "P", "r", "o", "j", "e", "c", "t", " ",
     "P", "l", "a", "n", "]", "]", " ", "f", "o", "r", " ",
     "d", "e", "t", "a", "i", "l", "s", "." >>
\* A wiki-link whose title is padded with spaces.
SamplePadded == << "a", " ", "[", "[", " ", "x", " ", "y", " ", "]", "]" >>

\* A diagram opener that is never closed, then the opener of a code block.
SampleUnclosed ==
  << FENCE, MERMAID, NL, "A", NL, NL, FENCE, "p", "y", NL, "c", NL >>

\* A diagram block and then a wiki-link.
SampleBoth ==
  << FENCE, MERMAID, NL, "x", NL, FENCE, NL, "[", "[", "x", "]", "]" >>

\* A diagram container typed as raw HTML, without any fence.
SampleTypedDiv == << DIV_OPEN, "A", "-", "-", ">", "B", DIV_CLOSE >>

RenderSamples ==
  {SampleIndented, SampleSubroutine, SampleGraph, SamplePlan, SamplePadded,
   SampleUnclosed, SampleBoth, SampleTypedDiv}

RenderTexts == ConcatsUpTo(MaxSegments) \cup RenderSamples

\* The texts of the renders that are compared call by call.
ReplayTexts == ConcatsUpTo(MaxReplaySegments) \cup RenderSamples

\* The note of the library: three wiki-links, one with a padded title, one
\* whose title holds '%20', one whose title is '*'.
HomeText ==
  << "[", "[", " ", "a", " ", "b", " ", "]", "]", NL,
     "[", "[", "a", PCT20, "b", "]", "]", NL,
     "[", "[", "*", "]", "]" >>

HomePath == FilePath(RootDir, << "h" >>)
SubPath == FilePath(SubDir, << "a", " ", "b" >>)
\* The file chosen in the 'Save As' dialog.
NotePath == FilePath(RootDir, << "n" >>)

\* The libraries the window is started on: the note alone, or the note and
\* a file 'a b.md' in the folder below.
HostFileSystems ==
  { [p \in {HomePath} |-> HomeText],
    [p \in {HomePath, SubPath} |-> IF p = HomePath THEN HomeText ELSE << "y" >>] }

\* What the user types into the editor.
EditTexts == { << "x" >> }

\* The text open_tree_item puts into the editor for a folder.
FolderNotice == << "Select a file to edit or create a new file in this folder." >>

\* The library of the editing sessions: one note with two headings.
DocText == << "#", " ", "A", NL, "#", "#", " ", "b" >>
DocPath == FilePath(RootDir, << "d" >>)
\* A path of the recent-files menu whose file is gone.
GonePath == FilePath(RootDir, << "g" >>)
DeskFileSystems == { [p \in {DocPath} |-> DocText] }

Modes == {"preview", "edit"}
ActionTypes == {"table", "mermaid", "command"}
Prompts == {"cancel", "empty", "given"}

\* What can become of a request to the AI service.
AiTexts == { << "t" >>, << >>, << ERROR, " ", "x" >> }
AiOutcomes ==
  { [post |-> p, status |-> "none", body |-> "none", text |-> << >>] :
      p \in {"Timeout", "ConnectionError", "Exception"} }
  \cup { [post |-> "Response", status |-> st, body |-> "none", text |-> << >>] :
           st \in {"404", "500"} }
  \cup { [post |-> "Response", status |-> "200", body |-> b, text |-> << >>] :
           b \in MalformedBodies \cup {"not JSON"} }
  \cup { [post |-> "Response", status |-> "200", body |-> "text", text |-> t] :
           t \in AiTexts }

\* The documents the AI commands are run on.
AiDocs == SeqsUpTo({"x"}, MaxAiDocLen)

\* The paths add_to_recent_files is called with on its own: None, the empty
\* string, and files of the root folder under either spelling of it.
RecentNames == << "a", "b", "c", "d", "e", "f", "g", "h", "i", "j", "k" >>
RecentPath(k) == FilePath(RootDir, << RecentNames[k] >>)
\* The same file, the folder spelled the other way.
Spelled(path) == FilePath(DotDir, path.stem)

Replies == {"Yes", "No", "Cancel"}
CreateReplies == {"Yes", "No"}
SaveAsChoices == {NoFile, NotePath}

\* ------------------------------------------------------------- state
VARIABLES
  pc,          \* where the caller of the ToC functions stands
  text,        \* the document text handed to the ToC functions
  max_depth,   \* extract_headings' max_depth argument
  raised,      \* TRUE when a call ended in an exception
  headings,    \* the list extract_headings returned
  toc,         \* the string format_toc returned
  anchor,      \* generate_anchor(text)
  anchor2,     \* generate_anchor(anchor)
  rpc,                     \* "idle" until set_markdown has been called
  doc,                     \* the document the host renders
  md_text,                 \* set_markdown's text argument
  md_base,                 \* set_markdown's base_url argument
  text_with_mermaid_divs,  \* set_markdown's local of that name
  text_with_wikilinks,     \* set_markdown's local of that name
  html_body,               \* set_markdown's local of that name
  current_html,            \* MarkdownPreview.current_html
  base_url,                \* MarkdownPreview.base_url
  first,                   \* the first set_markdown call: arguments and outcome
  files,              \* the Markdown files under default_folder, with their content
  editor_text,        \* editor.toPlainText()
  last_saved_text,    \* MainWindow.last_saved_text
  current_file,       \* MainWindow.current_file
  read_only,          \* editor.isReadOnly()
  recent_files_list,  \* RecentFilesManager.recent_files_list
  last_op,            \* the handler that ran last
  link,               \* the wiki-link it was about: title, href and text
  resolved,           \* the page names it called handle_wiki_link with
  asked,              \* the answer to 'Create it?' when it asked, else "none"
  opened,             \* the file it loaded into the editor, else NoFile
  current_mode,       \* MainWindow.current_mode
  title_dirty,        \* TRUE when the window title carries the mark ' *'
  toc_inserts,        \* how often a table of contents has been inserted
  adds,               \* how often add_to_recent_files has been called on its own
  added,              \* the path it was called with last
  notice,             \* the last message box the handler showed, else "none"
  ret,                \* what maybe_save_changes returned to it, else "none"
  replied,            \* the answer to 'Do you want to save them?', else "none"
  wrote,              \* "ok" or "failed" when it wrote current_file, else "none"
  calls,              \* the set_markdown calls it made: text and base_url
  ai                  \* the request it sent to the AI service and the result

tocVars == << pc, text, max_depth, raised, headings, toc, anchor, anchor2 >>

renderVars ==
  << rpc, doc, md_text, md_base, text_with_mermaid_divs, text_with_wikilinks,
     html_body, current_html, base_url >>

\* What is recorded about calls, for comparison.
logVars == << first >>

hostVars ==
  << files, editor_text, last_saved_text, current_file, read_only,
     recent_files_list, last_op, link, resolved, asked, opened,
     current_mode, title_dirty, toc_inserts, adds, added, notice, ret, replied,
     wrote, calls, ai >>

vars == << tocVars, renderVars, logVars, hostVars >>

NoLink == [title |-> << >>, href |-> << >>, text |-> << >>]

\* No request sent.
NoAi == [outcome |-> NoOutcome, raised |-> FALSE, value |-> << >>]

\* No window: the renderer and the ToC functions are called on their own.
HostIdle ==
  /\ files = << >>
  /\ editor_text = << >>
  /\ last_saved_text = << >>
  /\ current_file = NoFile
  /\ read_only = FALSE
  /\ recent_files_list = << >>
  /\ last_op = "none"
  /\ link = NoLink
  /\ resolved = << >>
  /\ asked = "none"
  /\ opened = NoFile
  /\ current_mode = "edit"
  /\ title_dirty = FALSE
  /\ toc_inserts = 0
  /\ adds = 0
  /\ added = NoFile
  /\ notice = "none"
  /\ ret = "none"
  /\ replied = "none"
  /\ wrote = "none"
  /\ calls = << >>
  /\ ai = NoAi

\* No call recorded.
NoCall ==
  [text |-> << >>, base |-> "-", html |-> << >>, effective |-> "-",
   others |-> FALSE, again |-> FALSE]

\* MarkdownPreview.__init__: nothing rendered yet.
PreviewConstructed ==
  /\ rpc = "idle"
  /\ md_text = << >>
  /\ md_base = NoUrl
  /\ text_with_mermaid_divs = << >>
  /\ text_with_wikilinks = << >>
  /\ html_body = << >>
  /\ current_html = << >>
  /\ base_url = EmptyUrl

\* No ToC call in progress.
TocIdle ==
  /\ pc = "off"
  /\ text = << >>
  /\ max_depth = DefaultMaxDepth
  /\ raised = FALSE
  /\ headings = << >>
  /\ toc = << >>
  /\ anchor = << >>
  /\ anchor2 = << >>

InitToc ==
  /\ pc = "start"
  /\ text \in TocTexts
  /\ max_depth \in MaxDepths
  /\ raised = FALSE
  /\ headings = << >>
  /\ toc = << >>
  /\ anchor = << >>
  /\ anchor2 = << >>
  /\ doc = << >>
  /\ PreviewConstructed
  /\ first = NoCall
  /\ HostIdle

\* headings = extract_headings(text, max_depth)
CallExtractHeadings ==
  /\ pc = "start"
  /\ IF extract_raises(text, max_depth)
     THEN /\ raised' = TRUE
          /\ pc' = "raised"
          /\ UNCHANGED headings
     ELSE /\ headings' = extract_headings(text, max_depth)
          /\ pc' = "extracted"
          /\ UNCHANGED raised
  /\ UNCHANGED << text, max_depth, toc, anchor, anchor2 >>
  /\ UNCHANGED << renderVars, logVars, hostVars >>

\* toc = format_toc(headings)
CallFormatToc ==
  /\ pc = "extracted"
  /\ toc' = format_toc(headings)
  /\ pc' = "formatted"
  /\ UNCHANGED << text, max_depth, raised, headings, anchor, anchor2 >>
  /\ UNCHANGED << renderVars, logVars, hostVars >>

\* anchor = generate_anchor(text)
CallGenerateAnchor ==
  /\ pc = "formatted"
  /\ anchor' = generate_anchor(text)
  /\ pc' = "slugged"
  /\ UNCHANGED << text, max_depth, raised, headings, toc, anchor2 >>
  /\ UNCHANGED << renderVars, logVars, hostVars >>

\* anchor2 = generate_anchor(anchor)
CallGenerateAnchorAgain ==
  /\ pc = "slugged"
  /\ anchor2' = generate_anchor(anchor)
  /\ pc' = "done"
  /\ UNCHANGED << text, max_depth, raised, headings, toc, anchor >>
  /\ UNCHANGED << renderVars, logVars, hostVars >>

NextToc ==
  \/ CallExtractHeadings
  \/ CallFormatToc
  \/ CallGenerateAnchor
  \/ CallGenerateAnchorAgain

SpecToc == InitToc /\ [][NextToc]_vars

\* ---------------------------------------------------- the renderer
InitRender ==
  /\ TocIdle
  /\ doc \in RenderTexts
  /\ PreviewConstructed
  /\ first = NoCall
  /\ HostIdle

\* MarkdownPreview.set_markdown(t, b)
SetMarkdown(t, b) ==
  /\ md_text' = t
  /\ md_base' = b
  /\ text_with_mermaid_divs' = sub_mermaid(t)
  /\ text_with_wikilinks' = sub_wikilinks(text_with_mermaid_divs')
  /\ html_body' = md_convert(text_with_wikilinks')
  /\ current_html' = assemble(html_body')
  /\ base_url' = IF Truthy(b) THEN b ELSE base_url
  /\ rpc' = "rendered"
  /\ UNCHANGED doc
  /\ UNCHANGED << tocVars, logVars, hostVars >>

\* The host renders the document, or clears the preview with the empty text.
NextRender ==
  \E t \in {doc, << >>}, b \in BaseUrls : SetMarkdown(t, b)

SpecRender == InitRender /\ [][NextRender]_vars

\* ------------------------------------------ renders, call after call
InitReplay ==
  /\ TocIdle
  /\ doc \in ReplayTexts
  /\ PreviewConstructed
  /\ first = NoCall
  /\ HostIdle

\* MarkdownPreview.set_markdown(t, b), the first call of all recorded with
\* the HTML it produced and the base URL it handed to setHtml, and with
\* whether a call with other arguments, and then one with the same
\* arguments, came after it.
SetMarkdownAgain(t, b) ==
  /\ md_text' = t
  /\ md_base' = b
  /\ text_with_mermaid_divs' = sub_mermaid(t)
  /\ text_with_wikilinks' = sub_wikilinks(text_with_mermaid_divs')
  /\ html_body' = md_convert(text_with_wikilinks')
  /\ current_html' = assemble(html_body')
  /\ base_url' = IF Truthy(b) THEN b ELSE base_url
  /\ rpc' = "rendered"
  /\ first' = IF first = NoCall
              THEN [text |-> t, base |-> b, html |-> current_html',
                    effective |-> base_url', others |-> FALSE, again |-> FALSE]
              ELSE IF t = first.text /\ b = first.base
              THEN [first EXCEPT !.again = first.others]
              ELSE [first EXCEPT !.others = TRUE]
  /\ UNCHANGED doc
  /\ UNCHANGED << tocVars, hostVars >>

\* update_preview renders the document with the URL of its folder, or the
\* empty text with QUrl(); open_tree_item clears the preview without a base
\* URL.
NextReplay ==
  \E t \in {doc, << >>}, b \in BaseUrls : SetMarkdownAgain(t, b)

SpecReplay == InitReplay /\ [][NextReplay]_vars

\* ------------------------------------------- spans and anchors of a page
\* The double-bracket spans of s, leftmost first, none overlapping: each as
\* its interior T.
IsSpanAt(s, i, n) ==
  /\ n >= 1
  /\ i + n + 3 <= Len(s)
  /\ s[i] = "[" /\ s[i + 1] = "["
  /\ \A k \in (i + 2)..(i + n + 1) : s[k] # "]"
  /\ s[i + n + 2] = "]" /\ s[i + n + 3] = "]"

RECURSIVE SpansFrom(_, _)
SpansFrom(s, i) ==
  IF i > Len(s) THEN << >>
  ELSE IF \E n \in 1..Len(s) : IsSpanAt(s, i, n)
       THEN LET n == CHOOSE k \in 1..Len(s) : IsSpanAt(s, i, k)
            IN  << SubSeq(s, i + 2, i + n + 1) >> \o SpansFrom(s, i + n + 4)
  ELSE SpansFrom(s, i + 1)

\* The anchors of class wikilink in markup, in order: href and visible text.
RECURSIVE Anchors(_)
Anchors(s) ==
  LET a == FirstIn(s, 1, {A_OPEN})
      m == FirstIn(s, a + 1, {A_MID})
      c == FirstIn(s, m + 1, {A_CLOSE})
  IN  IF a = 0 \/ m = 0 \/ c = 0 THEN << >>
      ELSE << [href |-> SubSeq(s, a + 1, m - 1), text |-> SubSeq(s, m + 1, c - 1)] >>
             \o Anchors(Drop(s, c))

\* ------------------------------------------------------ the window
\* MainWindow.__init__ on a library, the edit mode restored: no file open,
\* the editor empty, nothing rendered.
WindowConstructed ==
  /\ editor_text = << >>
  /\ last_saved_text = << >>
  /\ current_file = NoFile
  /\ read_only = FALSE
  /\ recent_files_list = << >>
  /\ last_op = "none"
  /\ link = NoLink
  /\ resolved = << >>
  /\ asked = "none"
  /\ opened = NoFile
  /\ current_mode = "edit"
  /\ title_dirty = FALSE
  /\ toc_inserts = 0
  /\ adds = 0
  /\ added = NoFile
  /\ notice = "none"
  /\ ret = "none"
  /\ replied = "none"
  /\ wrote = "none"
  /\ calls = << >>
  /\ ai = NoAi

InitHost ==
  /\ TocIdle
  /\ doc = << >>
  /\ PreviewConstructed
  /\ first = NoCall
  /\ files \in HostFileSystems
  /\ WindowConstructed

\* The window and its preview as one value.
Host ==
  [files |-> files, editor |-> editor_text, saved |-> last_saved_text,
   current |-> current_file, ro |-> read_only, recent |-> recent_files_list,
   pv |-> [rpc |-> rpc, text |-> md_text, base |-> md_base,
           divs |-> text_with_mermaid_divs, links |-> text_with_wikilinks,
           body |-> html_body, html |-> current_html, url |-> base_url],
   asked |-> "none", opened |-> NoFile,
   mode |-> current_mode, dirty |-> title_dirty, inserts |-> toc_inserts,
   notice |-> "none", ret |-> "none", reply |-> "none", wrote |-> "none",
   calls |-> << >>, ai |-> NoAi]

\* The handler leaves the window as h.
Shows(h) ==
  /\ files' = h.files
  /\ editor_text' = h.editor
  /\ last_saved_text' = h.saved
  /\ current_file' = h.current
  /\ read_only' = h.ro
  /\ recent_files_list' = h.recent
  /\ rpc' = h.pv.rpc
  /\ md_text' = h.pv.text
  /\ md_base' = h.pv.base
  /\ text_with_mermaid_divs' = h.pv.divs
  /\ text_with_wikilinks' = h.pv.links
  /\ html_body' = h.pv.body
  /\ current_html' = h.pv.html
  /\ base_url' = h.pv.url
  /\ asked' = h.asked
  /\ opened' = h.opened
  /\ current_mode' = h.mode
  /\ title_dirty' = h.dirty
  /\ toc_inserts' = h.inserts
  /\ UNCHANGED << doc, first, adds, added >>
  /\ UNCHANGED tocVars

\* What is recorded about the run of a handler.
seenVars == << notice, ret, replied, wrote, calls, ai >>

\* The handler leaves the window as h, its run not recorded.
Becomes(h) ==
  /\ Shows(h)
  /\ UNCHANGED seenVars

\* The handler leaves the window as h, its run recorded.
Records(h) ==
  /\ Shows(h)
  /\ notice' = h.notice
  /\ ret' = h.ret
  /\ replied' = h.reply
  /\ wrote' = h.wrote
  /\ calls' = h.calls
  /\ ai' = h.ai

\* The wiki-links of the page the preview shows: for each anchor the title
\* between the brackets of the span it was made from.
Links ==
  LET made(anchors, spans) ==
        [i \in 1..Len(anchors) |->
           [title |-> spans[i], href |-> anchors[i].href, text |-> anchors[i].text]]
  IN  made(Anchors(html_body), SpansFrom(text_with_mermaid_divs, 1))

\* open_tree_item on a Markdown file of the library
OpenTreeFile(path, reply, ok, as) ==
  /\ path \in DOMAIN files
  /\ Becomes([open_file(Host, path, reply, ok, as) EXCEPT !.ro = FALSE])
  /\ last_op' = "open"
  /\ link' = NoLink
  /\ resolved' = << >>

\* open_tree_item on a folder of the library
OpenTreeFolder(reply, ok, as) ==
  /\ \E m \in {maybe_save_changes(Host, reply, ok, as)} :
       IF ~m.go THEN Becomes(m.h)
       ELSE Becomes([preview_set_markdown(
                       setPlainText([m.h EXCEPT !.ro = TRUE], FolderNotice),
                       << >>, NoUrl)
                     EXCEPT !.current = NoFile, !.saved = << >>])
  /\ last_op' = "folder"
  /\ link' = NoLink
  /\ resolved' = << >>

\* The user types: _on_editor_content_changed leaves the preview alone.
EditText(t) ==
  /\ ~read_only
  /\ editor_text # t
  /\ Becomes(setPlainText(Host, t))
  /\ last_op' = "edit"
  /\ link' = NoLink
  /\ resolved' = << >>

\* set_view_mode('preview')
SetViewMode ==
  /\ Becomes(set_view_mode(Host, "preview"))
  /\ last_op' = "preview"
  /\ link' = NoLink
  /\ resolved' = << >>

\* A click on l, a wiki-link of the page shown: the listener stops the
\* navigation and calls WikiLinkBridge.openWikiLink, which calls
\* handle_wiki_link.
ClickWikiLink(l, pick, create, reply, ok, as) ==
  /\ rpc = "rendered"
  /\ LET page == js_page(l.text)
     IN  /\ pick \in rglob(files, page) \cup {NoFile}
         /\ pick = NoFile <=> rglob(files, page) = {}
         /\ Becomes(handle_wiki_link(Host, page, pick, create, reply, ok, as))
         /\ resolved' = << page >>
  /\ last_op' = "click"
  /\ link' = l

\* A navigation to the href of l, a wiki-link of the page shown, on a
\* WikiLinkPage: acceptNavigationRequest calls handle_wiki_link and refuses
\* the navigation.
AcceptNavigationRequest(l, pick, create, reply, ok, as) ==
  /\ rpc = "rendered"
  /\ Head(l.href) = SCHEME
  /\ LET page == nav_page(l.href)
     IN  /\ pick \in rglob(files, page) \cup {NoFile}
         /\ pick = NoFile <=> rglob(files, page) = {}
         /\ Becomes(handle_wiki_link(Host, page, pick, create, reply, ok, as))
         /\ resolved' = << page >>
  /\ last_op' = "navigate"
  /\ link' = l

\* The answers the user can give in the dialogs of maybe_save_changes, the
\* ones that are not asked for left at one value: the reply to 'Do you want
\* to save them?', whether the write succeeds, the file of 'Save As'.
Answers ==
  {a \in [reply : Replies, ok : BOOLEAN, as : SaveAsChoices] :
     LET dirty == ~read_only /\ editor_text # last_saved_text
     IN  /\ ~dirty => a.reply = "No"
         /\ ~(dirty /\ a.reply = "Yes") => (a.ok /\ a.as = NoFile)
         /\ current_file # NoFile => a.as = NoFile}

\* The file rglob lists first and the answer to 'Create it?', for a page.
Picks(page) ==
  IF rglob(files, page) = {}
  THEN {[pick |-> NoFile, create |-> c] : c \in CreateReplies}
  ELSE {[pick |-> p, create |-> "No"] : p \in rglob(files, page)}

NextHost ==
  \/ \E path \in DOMAIN files, a \in Answers :
       OpenTreeFile(path, a.reply, a.ok, a.as)
  \/ \E a \in Answers : OpenTreeFolder(a.reply, a.ok, a.as)
  \/ \E t \in EditTexts : EditText(t)
  \/ SetViewMode
  \/ \E l \in Range(Links), a \in Answers :
       \E c \in Picks(js_page(l.text)) :
         ClickWikiLink(l, c.pick, c.create, a.reply, a.ok, a.as)
  \/ \E l \in Range(Links), a \in Answers :
       \E c \in Picks(nav_page(l.href)) :
         AcceptNavigationRequest(l, c.pick, c.create, a.reply, a.ok, a.as)

SpecHost == InitHost /\ [][NextHost]_vars

\* ------------------------------------------------ the recent files
\* RecentFilesManager.__init__ with no file of recent files on disk.
InitRecent ==
  /\ TocIdle
  /\ doc = << >>
  /\ PreviewConstructed
  /\ first = NoCall
  /\ HostIdle

\* The paths of the next call: None, the empty string, the first file that
\* is not in the list, the newest and the oldest entry of the list, the
\* files under either spelling of the folder.
RecentInputs ==
  LET missing == {k \in 1..Len(RecentNames) : RecentPath(k) \notin Range(recent_files_list)}
      next == IF missing = {} THEN {}
              ELSE {RecentPath(CHOOSE k \in missing : \A j \in missing : k <= j)}
      ends == IF recent_files_list = << >> THEN {}
              ELSE {recent_files_list[1], recent_files_list[Len(recent_files_list)]}
  IN  {NoFile, EmptyPath} \cup next \cup ends
        \cup {Spelled(p) : p \in next \cup ends}

\* recent_files_manager.add_to_recent_files(path)
AddToRecentFiles(path) ==
  /\ adds < MaxAdds
  /\ recent_files_list' = add_to_recent_files(recent_files_list, path)
  /\ adds' = adds + 1
  /\ added' = path
  /\ UNCHANGED << files, editor_text, last_saved_text, current_file, read_only,
                  last_op, link, resolved, asked, opened, current_mode,
                  title_dirty, toc_inserts >>
  /\ UNCHANGED << tocVars, renderVars, logVars, seenVars >>

NextRecent == \E path \in RecentInputs : AddToRecentFiles(path)

SpecRecent == InitRecent /\ [][NextRecent]_vars

\* ---------------------------------------------- the window, editing
InitEdit ==
  /\ TocIdle
  /\ doc = << >>
  /\ PreviewConstructed
  /\ first = NoCall
  /\ files \in DeskFileSystems
  /\ WindowConstructed

\* The handler op has run and was about no wiki-link.
Ran(op) ==
  /\ last_op' = op
  /\ link' = NoLink
  /\ resolved' = << >>

\* File > New
NewFile(reply, ok, as) ==
  /\ Records(new_file(Host, reply, ok, as))
  /\ Ran("new_file")

\* File > Open with the file chosen in the dialog, or a file of the
\* recent-files menu: open_file and nothing after it.
OpenFile(path, reply, ok, as) ==
  /\ Records(open_file(Host, path, reply, ok, as))
  /\ Ran("open_file")

\* open_tree_item on a Markdown file of the library, or on a folder (NoFile)
OpenTreeItem(path, reply, ok, as) ==
  /\ IF path # NoFile
     THEN Records([open_file(Host, path, reply, ok, as) EXCEPT !.ro = FALSE])
     ELSE \E m \in {maybe_save_changes(Host, reply, ok, as)} :
            IF ~m.go THEN Records(m.h)
            ELSE Records([preview_set_markdown(
                            setPlainText([m.h EXCEPT !.ro = TRUE], FolderNotice),
                            << >>, NoUrl)
                          EXCEPT !.current = NoFile, !.saved = << >>])
  /\ Ran(IF path # NoFile THEN "open_tree_file" ELSE "open_tree_folder")

\* The user types t over the text of the editor: contentChanged.
TypeText(t) ==
  /\ ~read_only
  /\ editor_text # t
  /\ Records(setPlainText(Host, t))
  /\ Ran("edit")

\* set_view_mode(mode)
SetViewModeTo(mode) ==
  /\ Records(set_view_mode(Host, mode))
  /\ Ran("set_view_mode")

\* The toolbar button Preview / Edit
ToggleMode ==
  /\ Records(toggle_mode(Host))
  /\ Ran("toggle_mode")

\* File > Save
SaveFile(ok, as) ==
  /\ Records(save_file(Host, ok, as))
  /\ Ran("save_file")

\* File > Save As
SaveFileAs(ok, as) ==
  /\ Records(save_file_as(Host, ok, as))
  /\ Ran("save_file_as")

\* Generate Table of Contents
InsertTableOfContents ==
  /\ toc_inserts < MaxTocInserts
  /\ Records(insert_table_of_contents(Host))
  /\ Ran("insert_toc")

\* One of the AI commands of the menu, on a writable editor.
AiPromptAction(action_type, prompt, selected, pos, o) ==
  /\ ~read_only
  /\ Len(editor_text) <= MaxAiDocLen
  /\ pos \in {0, Len(editor_text)}
  /\ selected => editor_text # << >>
  /\ Records(ai_prompt_action(Host, action_type, prompt, selected, pos, o))
  /\ Ran("ai")

\* The answers to save_file: whether the write succeeds and the file of
\* 'Save As', which is asked for when no file is open; what is not used is
\* left at one value.
SaveAnswers ==
  {a \in [ok : BOOLEAN, as : SaveAsChoices] :
     /\ current_file # NoFile => a.as = NoFile
     /\ (current_file = NoFile /\ a.as = NoFile) => a.ok}

\* The answers to save_file_as, which always asks for the file.
SaveAsAnswers ==
  {a \in [ok : BOOLEAN, as : SaveAsChoices] : a.as = NoFile => a.ok}

\* The inputs of an AI command, those that are not used left at one value.
AiInputs ==
  {i \in [action_type : ActionTypes, prompt : Prompts, selected : BOOLEAN,
          pos : {0, Len(editor_text)}, o : AiOutcomes \cup {NoOutcome}] :
     /\ i.prompt = "given" <=> i.o # NoOutcome
     /\ i.selected => (i.action_type = "command" /\ editor_text # << >>)
     /\ (i.selected \/ i.prompt # "given" \/ ~is_content(gemini_request(i.o).value))
          => i.pos = 0}

NextEdit ==
  \/ \E a \in Answers : NewFile(a.reply, a.ok, a.as)
  \/ \E path \in DOMAIN files \cup {NoFile, GonePath}, a \in Answers :
       OpenFile(path, a.reply, a.ok, a.as)
  \/ \E path \in DOMAIN files \cup {NoFile}, a \in Answers :
       OpenTreeItem(path, a.reply, a.ok, a.as)
  \/ \E t \in EditTexts : TypeText(t)
  \/ \E mode \in Modes : SetViewModeTo(mode)
  \/ ToggleMode
  \/ \E a \in SaveAnswers : SaveFile(a.ok, a.as)
  \/ \E a \in SaveAsAnswers : SaveFileAs(a.ok, a.as)

SpecEdit == InitEdit /\ [][NextEdit]_vars

\* ------------------------------------------ the window, AI commands
InitAi ==
  /\ TocIdle
  /\ doc = << >>
  /\ PreviewConstructed
  /\ first = NoCall
  /\ files \in DeskFileSystems
  /\ WindowConstructed

NextAi ==
  \/ \E t \in AiDocs : TypeText(t)
  \/ \E i \in AiInputs : AiPromptAction(i.action_type, i.prompt, i.selected, i.pos, i.o)

SpecAi == InitAi /\ [][NextAi]_vars

\* ------------------------------- the window, a table of contents
\* A window in whose editor a text has been typed.
InitInsert ==
  /\ TocIdle
  /\ doc = << >>
  /\ PreviewConstructed
  /\ first = NoCall
  /\ files \in DeskFileSystems
  /\ editor_text \in TocTexts
  /\ last_saved_text = << >>
  /\ current_file = NoFile
  /\ read_only = FALSE
  /\ recent_files_list = << >>
  /\ last_op = "none"
  /\ link = NoLink
  /\ resolved = << >>
  /\ asked = "none"
  /\ opened = NoFile
  /\ current_mode = "edit"
  /\ title_dirty = (editor_text # << >>)
  /\ toc_inserts = 0
  /\ adds = 0
  /\ added = NoFile
  /\ notice = "none"
  /\ ret = "none"
  /\ replied = "none"
  /\ wrote = "none"
  /\ calls = << >>
  /\ ai = NoAi

NextInsert == InsertTableOfContents

SpecInsert == InitInsert /\ [][NextInsert]_vars

\* ------------------------------------------------- claims, ToC side
Extracted == pc \in {"extracted", "formatted", "slugged", "done"}
Formatted == pc \in {"formatted", "slugged", "done"}
Slugged == pc \in {"slugged", "done"}

RECURSIVE CountLeading(_, _)
CountLeading(s, S) ==
  IF s # << >> /\ Head(s) \in S THEN 1 + CountLeading(Tail(s), S) ELSE 0

\* The heading rule in the words of the specification: k leading '#',
\* 1 <= k <= maxDepth, then whitespace, then content that is not empty.
StatedLevel(line) == CountLeading(line, {Hash})

StatedIsHeading(line, maxDepth) ==
  LET k == StatedLevel(line)
      w == CountLeading(SubSeq(line, k + 1, Len(line)), Whitespace)
  IN  /\ 1 <= k
      /\ k <= maxDepth
      /\ w >= 1
      /\ k + w < Len(line)

RECURSIVE StatedLevels(_, _)
StatedLevels(lines, maxDepth) ==
  IF lines = << >> THEN << >>
  ELSE (IF StatedIsHeading(Head(lines), maxDepth)
        THEN << StatedLevel(Head(lines)) >> ELSE << >>)
         \o StatedLevels(Tail(lines), maxDepth)

Levels(hs) == [i \in 1..Len(hs) |-> hs[i].level]

\* C1: for maxDepth >= 1 the headings extract_headings returns are, line by
\* line and in order, those of the lines that start with k '#', 1 <= k <=
\* maxDepth, followed by whitespace and then non-empty content, each with
\* level k; a line with more than maxDepth '#' gives none ('#### Four' with
\* maxDepth 3 gives no heading, '### Three' one heading of level 3).
C1_HeadingRule ==
  /\ (Extracted /\ max_depth >= 1)
       => Levels(headings) = StatedLevels(splitlines(text), max_depth)
  /\ (Extracted /\ max_depth = 3 /\ text = SampleFour) => headings = << >>
  /\ (Extracted /\ max_depth = 3 /\ text = SampleThree) => Levels(headings) = << 3 >>

C1_Witness ==
  /\ Extracted
  /\ max_depth = 3
  /\ text = SampleThree
  /\ Len(headings) = 1
  /\ headings[1].level = 3

\* C2: every heading returned has a text that is non-empty and has no
\* whitespace at either end; a text whose lines are '#' characters followed
\* only by whitespace gives no heading and no exception.
HashesThenBlank(line) ==
  /\ line # << >>
  /\ Head(line) = Hash
  /\ \A i \in 1..Len(line) :
       line[i] # Hash => \A j \in i..Len(line) : IsSpace(line[j])

C2_TrimmedNonEmpty ==
  /\ \A i \in 1..Len(headings) :
       /\ headings[i].text # << >>
       /\ ~IsSpace(Head(headings[i].text))
       /\ ~IsSpace(headings[i].text[Len(headings[i].text)])
  /\ (max_depth >= 1 /\ pc # "start"
        /\ \A i \in 1..Len(splitlines(text)) : HashesThenBlank(splitlines(text)[i]))
       => (Extracted /\ ~raised /\ headings = << >>)

C2_Witness ==
  /\ Extracted
  /\ max_depth >= 1
  /\ text = SampleBlank
  /\ headings = << >>
  /\ ~raised

\* The slug in the words of the specification, position by position.
StatedTrim(s) ==
  LET keep == {i \in 1..Len(s) : ~IsSpace(s[i])}
  IN  IF keep = {} THEN << >>
      ELSE SubSeq(s, CHOOSE i \in keep : \A j \in keep : i <= j,
                     CHOOSE i \in keep : \A j \in keep : j <= i)

StatedSlug(s) ==
  LET t == lower(StatedTrim(s))
      u == [i \in 1..Len(t) |->
              IF IsSpace(t[i])
              THEN (IF i > 1 /\ IsSpace(t[i - 1]) THEN "" ELSE "-")
              ELSE t[i]]
  IN  SelectSeq(u, LAMBDA c : c \in SafeChars)

IsAlnum(c) == c \in Range(LowerAlpha) \cup Range(UpperAlpha) \cup Digits
IsPunct(c) == ~IsAlnum(c) /\ ~IsSpace(c)

\* C3: generate_anchor(text) is: trim and lowercase, every maximal run of
\* whitespace replaced by one hyphen, then every character outside
\* [a-z0-9-] deleted; the result holds only characters of [a-z0-9-], and is
\* empty when the text is all whitespace or all punctuation other than '-'.
C3_Slug ==
  Slugged =>
    /\ anchor = StatedSlug(text)
    /\ Range(anchor) \subseteq SafeChars
    /\ ((\A i \in 1..Len(text) : IsSpace(text[i]))
          \/ (\A i \in 1..Len(text) : IsPunct(text[i]) /\ text[i] # "-"))
         => anchor = << >>

C3_Witness ==
  /\ Slugged
  /\ text = << "A", " ", " ", "!" >>
  /\ anchor = << "a", "-" >>

\* C3 as stated: the result is empty whenever the text is all punctuation
\* and/or whitespace (here for texts that hold no hyphen of their own).
C3_Original ==
  Slugged =>
    /\ anchor = StatedSlug(text)
    /\ Range(anchor) \subseteq SafeChars
    /\ (\A i \in 1..Len(text) : (IsPunct(text[i]) /\ text[i] # "-") \/ IsSpace(text[i]))
         => anchor = << >>

\* C4: on a text of characters of [a-z0-9-] only, generate_anchor returns
\* the text itself; and slugging a slug again returns it unchanged.
C4_Idempotent ==
  /\ (Slugged /\ Range(text) \subseteq SafeChars) => anchor = text
  /\ pc = "done" => anchor2 = anchor

C4_Witness ==
  /\ pc = "done"
  /\ text = << "a", "-", "-", "a" >>
  /\ anchor = text
  /\ anchor2 = text

\* C5: every heading's anchor is the slug of its own text, whatever the
\* other headings are: two headings of the same text get the same anchor.
C5_AnchorPerHeading ==
  \A i \in 1..Len(headings) : headings[i].anchor = StatedSlug(headings[i].text)

C5_Witness ==
  /\ Extracted
  /\ text = SampleIntro
  /\ Len(headings) = 2
  /\ headings[1].text = << "I", "n", "t", "r", "o" >>
  /\ headings[2].text = headings[1].text
  /\ headings[1].anchor = << "i", "n", "t", "r", "o" >>
  /\ headings[2].anchor = headings[1].anchor

\* The pieces of s between its newlines: n newlines give n + 1 pieces.
RECURSIVE PiecesFrom(_, _)
PiecesFrom(s, cur) ==
  IF s = << >> THEN << cur >>
  ELSE IF Head(s) = NL THEN << cur >> \o PiecesFrom(Tail(s), << >>)
  ELSE PiecesFrom(Tail(s), Append(cur, Head(s)))

StatedTocLine(h) ==
  [i \in 1..(2 * (h.level - 1)) |-> " "]
    \o << "-", " ", "[" >> \o h.text \o << "]", "(", "#" >> \o h.anchor \o << ")" >>

\* C6: for a non-empty heading list, format_toc's result cut at its
\* newlines is one line per heading, in the order of the list, each line
\* 2 * (level - 1) spaces and then '- [text](#anchor)', with no newline at
\* the end; and '# A\n## B\n' gives '- [A](#a)\n  - [B](#b)'.
C6_TocLines ==
  /\ (Formatted /\ headings # << >>)
       => PiecesFrom(toc, << >>) = [i \in 1..Len(headings) |-> StatedTocLine(headings[i])]
  /\ (Formatted /\ text = SampleAB /\ max_depth >= 2)
       => toc = << "-", " ", "[", "A", "]", "(", "#", "a", ")", NL,
                   " ", " ", "-", " ", "[", "B", "]", "(", "#", "b", ")" >>

C6_Witness ==
  /\ Formatted
  /\ text = SampleAB
  /\ max_depth = 3
  /\ Len(headings) = 2
  /\ Len(toc) = 21

\* C7: format_toc returns the empty string exactly when the heading list is
\* empty.
C7_EmptyToc == Formatted => (toc = << >> <=> headings = << >>)

C7_Witness ==
  /\ Formatted
  /\ text # << >>
  /\ headings = << >>
  /\ toc = << >>

\* C8: with maxDepth >= 1 no call raises, whatever the text: malformed lines
\* give no heading, and the empty text gives no headings, the empty ToC and
\* the empty slug.
C8_Total ==
  /\ max_depth >= 1 => (~raised /\ pc # "raised")
  /\ Extracted => Len(headings) <= Len(splitlines(text))
  /\ (pc = "done" /\ text = << >>)
       => (headings = << >> /\ toc = << >> /\ anchor = << >> /\ anchor2 = << >>)

C8_Witness ==
  /\ pc = "done"
  /\ max_depth >= 1
  /\ text = << Hash, "a", NL, Hash >>
  /\ headings = << >>
  /\ ~raised

\* ---------------------------------------------- claims, renderer side
\* The text content of markup: its items outside the anchor tags.
RECURSIVE TextContent(_)
TextContent(s) ==
  IF s = << >> THEN << >>
  ELSE IF Head(s) = A_OPEN
       THEN LET m == FirstIn(s, 2, {A_MID})
            IN  IF m = 0 THEN << >> ELSE TextContent(Drop(s, m))
  ELSE IF Head(s) = A_CLOSE THEN TextContent(Tail(s))
  ELSE << Head(s) >> \o TextContent(Tail(s))

\* What the first element of class mermaid holds.
FirstDivPayload(s) ==
  LET a == FirstIn(s, 1, {DIV_OPEN})
      z == FirstIn(s, a + 1, {DIV_CLOSE})
  IN  IF a = 0 \/ z = 0 THEN << >> ELSE SubSeq(s, a + 1, z - 1)

OpenerAt(t, i) == i < Len(t) /\ t[i] = FENCE /\ t[i + 1] = MERMAID

HasClosedBlock(t) ==
  \E i \in 1..Len(t) : OpenerAt(t, i) /\ FirstIn(t, i + 2, {FENCE}) # 0

\* The content between the fences of the first diagram block: what follows
\* the line of the opening fence (or, with no line break after the tag, the
\* blanks after the tag), up to the closing fence.
StatedContent(t) ==
  LET i  == CHOOSE k \in 1..Len(t) : OpenerAt(t, k) /\ \A j \in 1..(k - 1) : ~OpenerAt(t, j)
      j  == FirstIn(t, i + 2, {FENCE})
      c  == SubSeq(t, i + 2, j - 1)
      b  == CountLeading(c, {" ", TAB})
  IN  IF b < Len(c) /\ c[b + 1] = NL THEN Drop(c, b + 1) ELSE Drop(c, b)

\* C9 as stated: when the text holds a diagram block (a mermaid fence and a
\* closing fence), the markup holds an element of class mermaid whose text
\* is the content between the fences, unmodified (here for texts that are
\* one diagram block and nothing else, its content not blank).
C9_Original ==
  (rpc = "rendered" /\ HasClosedBlock(md_text)
     /\ OpenerAt(md_text, 1)
     /\ FirstIn(md_text, 3, {FENCE}) = Len(md_text)
     /\ \E i \in 1..Len(StatedContent(md_text)) : ~IsSpace(StatedContent(md_text)[i]))
    => /\ DIV_OPEN \in Range(text_with_wikilinks)
       /\ TextContent(FirstDivPayload(text_with_wikilinks)) = StatedContent(md_text)

\* An item with %20 for each space in it.
SpaceEscaped(c) ==
  CASE c = " " -> PCT20
    [] c = DIV_OPEN -> DIV_OPEN_PCT
    [] OTHER -> c

StatedHref(T) ==
  LET t == StatedTrim(T)
  IN  << SCHEME >> \o [i \in 1..Len(t) |-> SpaceEscaped(t[i])]

\* C10: for every double-bracket span [[T]] of the text the wiki-link stage
\* is handed (T non-empty, without ']'; leftmost first, none overlapping),
\* the renderer emits an anchor of class wikilink whose href is wikilink://
\* and trim(T) with %20 for each space, and whose visible text is [[trim(T)]]:
\* the bracketed form with the title trimmed.
C10_WikiLinkRewrite ==
  rpc = "rendered" =>
    LET spans == SpansFrom(text_with_mermaid_divs, 1)
    IN  /\ (FENCE \notin Range(md_text)) => text_with_mermaid_divs = md_text
        /\ Anchors(text_with_wikilinks) =
             [i \in 1..Len(spans) |->
                [href |-> StatedHref(spans[i]),
                 text |-> << "[", "[" >> \o StatedTrim(spans[i]) \o << "]", "]" >>]]

C10_Witness ==
  /\ rpc = "rendered"
  /\ md_text = SamplePlan
  /\ Anchors(text_with_wikilinks) =
       << [href |-> << SCHEME, "P", "r", "o", "j", "e", "c", "t", PCT20, "P", "l", "a", "n" >>,
           text |-> << "[", "[", "P", "r", "o", "j", "e", "c", "t", " ",
                       "P", "l", "a", "n", "]", "]" >>] >>

\* C10 as stated: the visible text is the bracketed form as it stood in the
\* input (here for texts of one line without a fence, which the diagram
\* stage leaves alone, and titles that are not blank and hold no bracket).
C10_Original ==
  (rpc = "rendered" /\ FENCE \notin Range(md_text) /\ NL \notin Range(md_text)
     /\ \A i \in 1..Len(SpansFrom(md_text, 1)) :
          /\ StatedTrim(SpansFrom(md_text, 1)[i]) # << >>
          /\ "[" \notin Range(SpansFrom(md_text, 1)[i])) =>
    LET spans == SpansFrom(md_text, 1)
    IN  Anchors(text_with_wikilinks) =
          [i \in 1..Len(spans) |->
             [href |-> StatedHref(spans[i]),
              text |-> << "[", "[" >> \o spans[i] \o << "]", "]" >>]]

\* A '[[' stands at position i of s.
OpenAt(s, i) == i < Len(s) /\ s[i] = "[" /\ s[i + 1] = "["

\* The '[[' at i is followed by a closing ']]' with only characters other
\* than ']' in between.
ClosedAt(s, i) ==
  \E j \in (i + 2)..(Len(s) - 1) :
    /\ s[j] = "]" /\ s[j + 1] = "]"
    /\ \A k \in (i + 2)..(j - 1) : s[k] # "]"

Unclosed(s) == {i \in 1..Len(s) : OpenAt(s, i) /\ ~ClosedAt(s, i)}

\* The last position of the text an unclosed '[[' at i opens: the next ']'
\* when there is one, else the end of s.
ReachOf(s, i) ==
  LET j == FirstIn(s, i + 2, {"]"}) IN IF j = 0 THEN Len(s) ELSE j

Occurs(piece, s) ==
  \E k \in 0..(Len(s) - Len(piece)) : SubSeq(s, k + 1, k + Len(piece)) = piece

\* C11: a '[[' that is not followed by a closing ']]' with only characters
\* other than ']' in between gets no anchor and stays as literal text: the
\* wiki-link stage emits at most one anchor per closed '[[', the text from an
\* unclosed '[[' to the next ']' (or the end) stands unchanged in its
\* output, and a text whose '[[' are all unclosed leaves the stage as it
\* came, without any anchor.
C11_NoFalseMatch ==
  rpc = "rendered" =>
    LET s   == text_with_mermaid_divs
        out == text_with_wikilinks
    IN  /\ Len(Anchors(out)) <= Cardinality({i \in 1..Len(s) : OpenAt(s, i) /\ ClosedAt(s, i)})
        /\ Len(SelectSeq(out, LAMBDA c : c = A_OPEN)) = Len(Anchors(out))
        /\ \A i \in Unclosed(s) : Occurs(SubSeq(s, i, ReachOf(s, i)), out)
        /\ (\A i \in 1..Len(s) : OpenAt(s, i) => i \in Unclosed(s))
             => (out = s /\ A_OPEN \notin Range(out))

C11_Witness ==
  /\ rpc = "rendered"
  /\ md_text = << "[", "[", "x", "]" >>
  /\ text_with_wikilinks = md_text
  /\ Anchors(text_with_wikilinks) = << >>

\* The fence at j opens a block of its own: it starts a line and an info
\* string follows it, so it cannot be the closing fence of an earlier block.
InfoFence(t, j) ==
  /\ t[j] = FENCE
  /\ j > 1 /\ t[j - 1] = NL
  /\ j < Len(t)
  /\ ~IsSpace(t[j + 1])
  /\ t[j + 1] \notin {FENCE, "[", "]"}

\* t starts with a diagram opener on a line of its own, and none of the
\* later fences can close it.
Unterminated(t) ==
  /\ OpenerAt(t, 1)
  /\ Len(t) >= 3 /\ t[3] = NL
  /\ \A j \in 3..Len(t) : t[j] = FENCE => InfoFence(t, j)

\* C12 as stated: when a diagram opener has no closing fence of its own,
\* whether or not other fenced blocks follow, the diagram stage does not
\* match it: no container, nothing consumed, the text unchanged (here for
\* texts that start with the opener on its own line and in which every later
\* fence starts a line and carries an info string, so that none of them is a
\* closing fence).
C12_Original ==
  (rpc = "rendered" /\ Unterminated(md_text))
    => /\ DIV_OPEN \notin Range(text_with_mermaid_divs)
       /\ text_with_mermaid_divs = md_text

Count(x, s) == Len(SelectSeq(s, LAMBDA c : c = x))

\* The number of recognized diagram blocks of t from position i on: an
\* opener and the next fence after it, leftmost first, none overlapping.
RECURSIVE BlocksFrom(_, _)
BlocksFrom(t, i) ==
  IF i > Len(t) THEN 0
  ELSE IF OpenerAt(t, i) /\ FirstIn(t, i + 2, {FENCE}) # 0
       THEN 1 + BlocksFrom(t, FirstIn(t, i + 2, {FENCE}) + 1)
  ELSE BlocksFrom(t, i + 1)

\* Markup with every anchor element, tags and content, replaced by one
\* placeholder item.
ANCHOR == "<a/>"

RECURSIVE Blanked(_)
Blanked(s) ==
  IF s = << >> THEN << >>
  ELSE IF Head(s) = A_OPEN /\ FirstIn(s, 2, {A_CLOSE}) # 0
       THEN << ANCHOR >> \o Blanked(Drop(s, FirstIn(s, 2, {A_CLOSE})))
  ELSE << Head(s) >> \o Blanked(Tail(s))

\* C13: both substitutions run before the Markdown conversion.  The text
\* handed to the converter has lost the two fences of every recognized
\* diagram block (a text whose fences all belong to recognized blocks
\* arrives without any fence), and outside its anchor elements it holds no
\* double-bracket span; the '[[' and ']]' of every recognized wiki-link are
\* still there, as the visible text of its anchor.
C13_StageOrder ==
  rpc = "rendered" =>
    /\ html_body = md_convert(text_with_wikilinks)
    /\ Count(FENCE, text_with_mermaid_divs)
         = Count(FENCE, md_text) - 2 * BlocksFrom(md_text, 1)
    /\ Count(FENCE, md_text) = 2 * BlocksFrom(md_text, 1)
         => FENCE \notin Range(text_with_wikilinks)
    /\ SpansFrom(Blanked(text_with_wikilinks), 1) = << >>
    /\ \A i \in 1..Len(Anchors(text_with_wikilinks)) :
         LET a == Anchors(text_with_wikilinks)[i].text
         IN  /\ Len(a) >= 4
             /\ SubSeq(a, 1, 2) = << "[", "[" >>
             /\ SubSeq(a, Len(a) - 1, Len(a)) = << "]", "]" >>

C13_Witness ==
  /\ rpc = "rendered"
  /\ md_text = SampleBoth
  /\ text_with_wikilinks =
       << DIV_OPEN, "x", NL, DIV_CLOSE, NL,
          A_OPEN, SCHEME, "x", A_MID, "[", "[", "x", "]", "]", A_CLOSE >>

\* C13 as stated: the text handed to the converter holds no delimiter of a
\* recognized diagram block and none of a recognized wiki-link (here for
\* texts of one line without a fence, whose titles hold no bracket).
C13_Original ==
  (rpc = "rendered" /\ FENCE \notin Range(md_text) /\ NL \notin Range(md_text)
     /\ \A i \in 1..Len(SpansFrom(md_text, 1)) : "[" \notin Range(SpansFrom(md_text, 1)[i]))
    => SpansFrom(text_with_wikilinks, 1) = << >>

\* C14: the assembled document holds the diagram library's script reference
\* and its initialization snippet exactly when the converted body holds the
\* opening tag of a diagram container: whenever stage 1 produced a container
\* (the converter passing raw HTML through), and also when the text itself
\* holds that tag; the bridge script is in the document for every input.
C14_ScriptInjection ==
  rpc = "rendered" =>
    /\ MERMAID_SCRIPT \in Range(current_html) <=> DIV_OPEN \in Range(html_body)
    /\ MERMAID_INIT \in Range(current_html) <=> DIV_OPEN \in Range(html_body)
    /\ DIV_OPEN \in Range(html_body)
         <=> (BlocksFrom(md_text, 1) >= 1 \/ DIV_OPEN \in Range(md_text))
    /\ Count(INJECTED_JS, current_html) = 1

C14_Witness ==
  /\ rpc = "rendered"
  /\ md_text = SampleGraph
  /\ BlocksFrom(md_text, 1) = 1
  /\ MERMAID_SCRIPT \in Range(current_html)
  /\ MERMAID_INIT \in Range(current_html)
  /\ INJECTED_JS \in Range(current_html)

\* C14 as stated: the diagram script and its initialization are in the
\* document if and only if stage 1 produced at least one container.
C14_Original ==
  rpc = "rendered" =>
    /\ MERMAID_SCRIPT \in Range(current_html) <=> BlocksFrom(md_text, 1) >= 1
    /\ MERMAID_INIT \in Range(current_html) <=> BlocksFrom(md_text, 1) >= 1
    /\ INJECTED_JS \in Range(current_html)

\* The call that has just returned has the arguments of the first call.
SameAsFirst ==
  /\ rpc = "rendered"
  /\ first # NoCall
  /\ md_text = first.text
  /\ md_base = first.base

HtmlOf(t) == assemble(md_convert(sub_wikilinks(sub_mermaid(t))))

Followed == last_op \in {"click", "navigate"}

C18_Original ==
  (Followed /\ opened # NoFile) => opened.stem = resolved[1]

\* The page the handler that ran last was about, and the file a new page
\* of that name is written to.
Page == resolved[1]
NewPath == FilePath(RootDir, Page)

\* C19: when no file matches the title, handle_wiki_link asks 'Create it?'
\* (and only then).  On 'No' the files, the editor, the current file, the
\* saved text and the preview stay as they are.  On 'Yes' the file of the
\* title is written in the root folder, its text one heading of level 1
\* equal to the title, and it is opened through open_file: loaded into the
\* editor as the current file, unless the editor held unsaved changes and
\* the save question was cancelled or the save failed; then the new file
\* stays and the editor keeps its text.
C19_CreatePage ==
  [][Followed' =>
       IF rglob(files, Page') # {} THEN asked' = "none"
       ELSE /\ asked' \in CreateReplies
            /\ asked' = "No" =>
                 /\ UNCHANGED << files, editor_text, current_file, last_saved_text,
                                 read_only, recent_files_list, renderVars >>
                 /\ opened' = NoFile
            /\ asked' = "Yes" =>
                 /\ DOMAIN files' \ DOMAIN files = {NewPath'}
                 /\ files'[NewPath'] = new_page_text(Page')
                 /\ LET hs == extract_headings(files'[NewPath'], DefaultMaxDepth)
                    IN  Len(hs) = 1 /\ hs[1].level = 1 /\ hs[1].text = Page'
                 /\ \/ /\ opened' = NewPath'
                       /\ current_file' = NewPath'
                       /\ editor_text' = files'[NewPath']
                       /\ last_saved_text' = editor_text'
                       /\ md_text' = editor_text'
                    \/ /\ opened' = NoFile
                       /\ ~read_only /\ editor_text # last_saved_text
                       /\ editor_text' = editor_text
                       /\ current_file' # NewPath']_vars

C19_Witness ==
  /\ last_op = "click"
  /\ asked = "Yes"
  /\ resolved = << << "a", " ", "b" >> >>
  /\ opened = FilePath(RootDir, << "a", " ", "b" >>)
  /\ current_file = opened
  /\ editor_text = << "#", " ", "a", " ", "b", NL, NL >>
  /\ files[opened] = editor_text

\* C19 as stated: on 'Yes' the new document is created and it is opened.
C19_Original ==
  (last_op = "click" /\ asked = "Yes") =>
    /\ NewPath \in DOMAIN files
    /\ opened = NewPath
    /\ current_file = NewPath
    /\ editor_text = new_page_text(Page)

Switched == last_op \in {"set_view_mode", "toggle_mode"}

\* C21 as stated, which the code does not satisfy: every switch of the view
\* mode, in either direction and whatever document is open, calls the
\* renderer with the text of the editor and, for a saved document, with the
\* URL of the document's folder.
C21_Original ==
  Switched =>
    /\ calls # << >>
    /\ calls[Len(calls)].text = editor_text
    /\ current_file \in DOMAIN files =>
         calls[Len(calls)].base = FolderUrl(current_file.dir)

\* C22: a change of the editor content by the user calls the renderer not
\* once; it sets the mark of unsaved changes to whether the text differs from
\* the text last saved, and leaves the preview, with its HTML and its base
\* URL, and the file state as they are.
C22_NoRenderOnKeystroke ==
  [][last_op' = "edit" =>
       /\ calls' = << >>
       /\ title_dirty' = (editor_text' # last_saved_text')
       /\ UNCHANGED << rpc, md_text, md_base, html_body, current_html, base_url >>
       /\ UNCHANGED << files, last_saved_text, current_file, read_only,
                       current_mode >>]_vars

\* A saved note is open and rendered, and the user has typed over it: the
\* preview still shows the old text.
C22_Witness ==
  /\ last_op = "edit"
  /\ current_file = DocPath
  /\ rpc = "rendered"
  /\ md_text = DocText
  /\ editor_text = << "x" >>
  /\ title_dirty

\* ------------------------------------- claims, table of contents
\* 'Generate Table of Contents' has just run.
InsertedToc == last_op = "insert_toc"

\* The table of contents of the first sample: '- [A](#a)' and, indented by
\* two spaces, '- [B](#b)'.
SampleABToc ==
  << "-", " ", "[", "A", "]", "(", "#", "a", ")", NL,
     " ", " ", "-", " ", "[", "B", "]", "(", "#", "b", ")" >>

\* C23: when the document has a heading, 'Generate Table of Contents' leaves
\* a text that ends with the whole previous text and begins with the block:
\* the line '<!-- TOC -->', the lines format_toc returned, an empty line; the
\* user is told that it was inserted.  When the document has no heading,
\* format_toc returns the empty string, the text stays as it is and the user
\* is told that no heading was found.
C23_TocAtTop ==
  [][InsertedToc' =>
       LET hs == extract_headings(editor_text, DefaultMaxDepth)
           n == Len(editor_text') - Len(editor_text)
       IN  IF hs # << >>
           THEN /\ n > 0
                /\ SubSeq(editor_text', n + 1, Len(editor_text')) = editor_text
                /\ SubSeq(editor_text', 1, n) =
                     TOC_MARK \o << NL >> \o format_toc(hs) \o << NL, NL >>
                /\ notice' = "Table of Contents Inserted"
           ELSE /\ format_toc(hs) = << >>
                /\ editor_text' = editor_text
                /\ notice' = "No Headings Found"]_vars

\* The table of contents of the first sample stands above it.
C23_Witness ==
  /\ InsertedToc
  /\ toc_inserts = 1
  /\ notice = "Table of Contents Inserted"
  /\ editor_text = TOC_MARK \o << NL >> \o SampleABToc \o << NL, NL >> \o SampleAB

\* ------------------------------------------------- claims, recent files
Without(list, path) == SelectSeq(list, LAMBDA q : q # path)

\* C24: the recent-files list never exceeds MAX_RECENT_FILES entries and
\* never holds a path twice; a call with a path puts the normalized path
\* first, moves it (keeping the length) when it was present, keeps the other
\* entries in their order and drops only from the end; a call with None or
\* the empty string leaves the list as it was.
C24_RecentFilesBounded ==
  /\ [](/\ Len(recent_files_list) <= MAX_RECENT_FILES
        /\ \A i, j \in 1..Len(recent_files_list) :
             recent_files_list[i] = recent_files_list[j] => i = j)
  /\ [][adds' = adds + 1 =>
          IF added' \in {NoFile, EmptyPath}
          THEN recent_files_list' = recent_files_list
          ELSE LET p == resolve(added')
                   rest == Without(recent_files_list, p)
               IN  /\ recent_files_list' # << >>
                   /\ recent_files_list'[1] = p
                   /\ Tail(recent_files_list') =
                        SubSeq(rest, 1, Len(recent_files_list') - 1)
                   /\ p \in Range(recent_files_list) =>
                        Len(recent_files_list') = Len(recent_files_list)
                   /\ Len(recent_files_list') =
                        IF Len(rest) + 1 <= MAX_RECENT_FILES
                        THEN Len(rest) + 1 ELSE MAX_RECENT_FILES]_vars

\* The list is full, the oldest file has been pushed out, and a file already
\* listed was added again under the other spelling of its folder.
C24_Witness ==
  /\ Len(recent_files_list) = MAX_RECENT_FILES
  /\ RecentPath(1) \notin Range(recent_files_list)
  /\ added = Spelled(RecentPath(2))
  /\ recent_files_list[1] = RecentPath(2)
  /\ recent_files_list[2] = RecentPath(11)

\* ------------------------------------------- claims, unsaved changes
\* C25: in new_file and open_file, maybe_save_changes returns True exactly
\* when the editor is read-only, or its text equals last_saved_text, or the
\* answer is No, or the answer is Yes and the save succeeded; and when it
\* returns False, the editor text, current_file and last_saved_text are
\* left as they were.
C25_Original ==
  [][last_op' \in {"new_file", "open_file"} =>
       /\ ret' \in {"True", "False"}
       /\ ret' = "True" <=>
            \/ read_only
            \/ editor_text = last_saved_text
            \/ replied' = "No"
            \/ replied' = "Yes" /\ wrote' = "ok"
       /\ ret' = "False" =>
            UNCHANGED << editor_text, current_file, last_saved_text >>]_vars

\* ------------------------------------------------- claims, AI requests
\* The request came to nothing: post raised, or the status is an error, or
\* the body is not the JSON document with the text in its place.
RequestFailed(o) ==
  \/ o.post # "Response"
  \/ IsErrorStatus(o.status)
  \/ o.body # "text"

\* C26: _gemini_request never raises; on a timeout, a connection error, an
\* HTTP error status, a response of unexpected shape or any other exception
\* it returns a string that begins with '[AI Error:', and otherwise it
\* returns the text of the response.
C26_RequestNeverRaises ==
  ai.outcome # NoOutcome =>
    /\ ~ai.raised
    /\ IF RequestFailed(ai.outcome)
       THEN startswith(ai.value, AI_ERROR)
       ELSE ai.value = ai.outcome.text

\* A response with status 200 whose body is not JSON: resp.json() raises an
\* exception that is none of the three named ones.
C26_Witness ==
  /\ last_op = "ai"
  /\ ai.outcome.post = "Response"
  /\ ai.outcome.status = "200"
  /\ ai.outcome.body = "not JSON"
  /\ ~ai.raised
  /\ startswith(ai.value, AI_ERROR)

\* C27: when the AI method called by ai_prompt_action returns an error
\* message instead of content, the editor text is unchanged, the document is
\* not marked dirty, and the failure is reported.
C27_Original ==
  [][(/\ last_op' = "ai"
      /\ ai'.outcome # NoOutcome
      /\ startswith(ai'.value, AI_ERROR)) =>
       /\ editor_text' = editor_text
       /\ title_dirty' = title_dirty
       /\ notice' \in {fail_msg(t) : t \in ActionTypes}]_vars

\* ------------------------------------------- claims, the read-only flag
\* C28: whenever new_file or open_file has completed and installed a
\* document, the empty new one or a loaded file, the editor is not read-only.
C28_Original ==
  (\/ last_op = "new_file" /\ ret = "True"
   \/ last_op = "open_file" /\ opened # NoFile) => ~read_only

\* ------------------------------------------------ claims, failed saves
\* C29: when the write fails in save_file or save_file_as, current_file and
\* last_saved_text keep the values they had before the operation.
C29_Original ==
  [][(last_op' \in {"save_file", "save_file_as"} /\ wrote' = "failed") =>
       UNCHANGED << current_file, last_saved_text >>]_vars

\* C30: 'Generate Table of Contents' does not change the headings of the
\* document: extract_headings of the text after it equals extract_headings
\* of the text before it, so the inserted block adds no heading, and the
\* command run again generates the same block and puts one more copy of it
\* before the text.
C30_HeadingsKept ==
  /\ [][InsertedToc' =>
          extract_headings(editor_text', DefaultMaxDepth) =
            extract_headings(editor_text, DefaultMaxDepth)]_vars
  /\ [](toc_inserts = 2 =>
          LET block == toc_block(format_toc(extract_headings(editor_text, DefaultMaxDepth)))
              n == Len(block)
          IN  /\ Len(editor_text) >= 2 * n
              /\ SubSeq(editor_text, 1, n) = block
              /\ SubSeq(editor_text, n + 1, 2 * n) = block)

\* The command was run twice on the first sample: two copies of the block,
\* then the sample.
C30_Witness ==
  /\ InsertedToc
  /\ toc_inserts = 2
  /\ editor_text = toc_block(SampleABToc) \o toc_block(SampleABToc) \o SampleAB
  /\ Len(extract_headings(editor_text, DefaultMaxDepth)) = 2

====
